---- MODULE Spec2Model ----
\* Model of the collect endpoint src/app/api/send/route.ts (POST handler):
\* bot filter, schema validation, continuation-token cache, website lookup,
\* client info, IP block, session find/create, visit window, persistence and
\* token issue.  Each handler is cut at the awaits that touch a shared store.
EXTENDS Integers, Sequences, FiniteSets, Bags, TLC

\* ---------------------------------------------------------------- bounds
MaxRequests == 2        \* requests received during one run
MaxTicks    == 1        \* clock advances during one run
MaxUrlLen   == 3        \* characters of a url or of a relative referrer

\* ------------------------------------------------------ program constants
VisitWindow == 1800     \* route.ts:126, "now - iat > 1800"

\* ------------------------------------------------------------ input sets
Procs       == {1, 2}                       \* concurrently running handlers
Websites    == {"w1", "w2"}
TickSteps   == {VisitWindow, VisitWindow + 1}
StartTime   == 1

Req(type, website, ip, userAgent, data) ==
  [type |-> type, website |-> website, hostname |-> "site.example", ip |-> ip,
   userAgent |-> userAgent, data |-> data]

\* the request bodies sent by clients; data is undefined ("absent"), {} ("empty")
\* or an object with properties ("props")
Requests ==
  { Req("event",    "w1", "10.0.0.1",  "Firefox",   "props"),
    Req("event",    "w1", "10.0.0.1",  "Safari",    "absent"),
    Req("identity", "w1", "10.0.0.1",  "Firefox",   "absent"),
    Req("identity", "w1", "10.0.0.1",  "Firefox",   "empty"),
    Req("identify", "w1", "10.0.0.1",  "Firefox",   "props"),
    Req("event",    "w2", "10.0.0.1",  "Firefox",   "props"),
    Req("event",    "w1", "10.0.0.66", "Firefox",   "props"),
    Req("event",    "w1", "10.0.0.1",  "Googlebot", "props") }

\* strings are sequences of characters; "%61" is one percent-escape
Undef     == <<"undefined">>                \* undefined where a string is expected
UrlChars  == {"/", "a", "?", "%61"}
WordChars == {"a", "w", "h"}                \* the characters of \w in use

RECURSIVE StringsOf(_, _)
StringsOf(chars, n) ==
  IF n = 0 THEN {<<>>}
  ELSE LET shorter == StringsOf(chars, n - 1)
       IN  shorter \cup {Append(t, c) : t \in shorter, c \in chars}

UrlInputs == StringsOf(UrlChars, MaxUrlLen) \cup {Undef}

Scheme    == <<"h", ":", "/", "/">>
RefHosts  == { <<"a">>,
               <<"w", "w", "w", ".", "a">>,
               <<"a", ".", "w", "w", "w", ".", "a">>,
               <<"w", "w", "w", ".", "w", "w", "w", ".", "a">>,
               <<"w", "w", "w", "a">> }
RefTails  == { <<>>, <<"/">>, <<"/", "a">>, <<"?", "a">>, <<"/", "a", "?", "a">>,
               <<"/", "a", "?", "a", "?", "a">> }
ReferrerInputs ==
  UrlInputs \cup {Scheme \o host \o tail : host \in RefHosts, tail \in RefTails}

KnownWebsites == {"w1"}                     \* rows of the website store
BlockedIps    == {"10.0.0.66"}              \* the deny list
BotAgents     == {"Googlebot"}

\* ------------------------------------------------------------- JS values
NoId    == <<>>         \* undefined where an id is expected
NoStr   == ""           \* undefined where a string is expected
NoCache == [websiteId |-> NoStr, sessionId |-> NoId, visitId |-> NoId, iat |-> 0]
NoHeader      == [kind |-> "none", claims |-> NoCache]
GarbageHeader == [kind |-> "garbage", claims |-> NoCache]
NoRecord == [kind |-> "none", websiteId |-> NoStr, sessionId |-> NoId,
             visitId |-> NoId, data |-> NoStr]

VARIABLES
  proc,              \* proc[p]: the request handled by p and the handler's locals
  sessions,          \* session store
  events,            \* event store (a bag of rows)
  sessionData,       \* identity store (a bag of rows)
  issued,            \* claims of every token signed so far
  now,               \* wall clock when last read, epoch seconds
  ticks,             \* clock advances so far
  nreq,              \* requests received so far
  clickhouseEnabled, \* clickhouse.enabled
  disableBotCheck,   \* process.env.DISABLE_BOT_CHECK
  norm               \* the url and referrer of an event and what is stored of them

vars == <<proc, sessions, events, sessionData, issued, now, ticks, nreq,
          clickhouseEnabled, disableBotCheck, norm>>

\* ------------------------------------------------------------ collaborators
\* isbot(request.headers.get('user-agent'))
isbot(ua) == ua \in BotAgents

\* z.enum(['event', 'identity'])
schemaTypes == {"event", "identity"}

\* COLLECTION_TYPE of lib/constants, as the handler names its members
COLLECTION_TYPE == [event |-> "event", identify |-> "identify"]

\* parseToken(header, secret()): the claims of a token signed with the secret,
\* null for anything else
parseToken(header) == IF header.kind = "token" THEN header.claims ELSE NoCache

\* uuid(...args): a deterministic, collision-free digest of its arguments
uuid(args) == <<"uuid", args>>

\* visitSalt(): the salt of the deployment
visitSalt == "salt"

\* getClientInfo(request, payload)
getClientInfo(r) == [ip |-> r.ip, userAgent |-> r.userAgent]

\* hasBlockedIp(ip)
hasBlockedIp(ip) == ip \in BlockedIps

\* fetchWebsite(websiteId)
fetchWebsite(websiteId) == websiteId \in KnownWebsites

\* fetchSession(websiteId, sessionId)
fetchSession(websiteId, sessionId) ==
  \E s \in sessions : s.id = sessionId /\ s.websiteId = websiteId

\* messages of the errors a store call can throw
UniqueMessage == <<"Unique", "constraint", "failed">>
OtherMessage  == <<"Connection", "lost">>

\* String.prototype.toLowerCase, word by word
LowerWord(w) ==
  CASE w = "Unique"     -> "unique"
    [] w = "Connection" -> "connection"
    [] OTHER            -> w
toLowerCase(msg) == [i \in 1..Len(msg) |-> LowerWord(msg[i])]

\* String.prototype.includes
includes(msg, part) ==
  \E i \in 0..(Len(msg) - Len(part)) :
    \A j \in 1..Len(part) : msg[i + j] = part[j]

\* safeDecodeURI(s): decodeURI, undefined left alone
safeDecodeURI(str) ==
  IF str = Undef THEN Undef
  ELSE [i \in 1..Len(str) |-> IF str[i] = "%61" THEN "a" ELSE str[i]]

\* the first position of a character in a string, 0 when it has none
IndexOf(str, c) ==
  IF \E i \in 1..Len(str) : str[i] = c
  THEN CHOOSE i \in 1..Len(str) : str[i] = c /\ \A j \in 1..(i - 1) : str[j] # c
  ELSE 0

\* String.prototype.split(c), cutting at every c
RECURSIVE split(_, _)
split(str, c) ==
  LET i == IndexOf(str, c)
  IN  IF i = 0 THEN <<str>>
      ELSE <<SubSeq(str, 1, i - 1)>> \o split(SubSeq(str, i + 1, Len(str)), c)

\* route.ts:133-134  "safeDecodeURI(x)?.split('?') || []"
SplitQuery(str) == IF str = Undef THEN <<>> ELSE split(safeDecodeURI(str), "?")

\* array destructuring: the i-th element or undefined
Part(parts, i) == IF i <= Len(parts) THEN parts[i] ELSE Undef

\* route.ts:141  /^[\w-]+:\/\/\w+/.test(referrerPath)
IsAbsolute(str) ==
  /\ str # Undef
  /\ \E k \in 1..Len(str) :
       /\ \A i \in 1..k : str[i] \in WordChars \cup {"-"}
       /\ Len(str) >= k + 4
       /\ str[k + 1] = ":" /\ str[k + 2] = "/" /\ str[k + 3] = "/"
       /\ str[k + 4] \in WordChars

\* route.ts:142-144  new URL(referrer): hostname, pathname, search.substring(1)
ParseUrl(str) ==
  LET rest    == SubSeq(str, IndexOf(str, ":") + 3, Len(str))
      slash   == IndexOf(rest, "/")
      quest   == IndexOf(rest, "?")
      hostEnd == IF slash = 0 /\ quest = 0 THEN Len(rest)
                 ELSE IF slash = 0 THEN quest - 1
                 ELSE IF quest = 0 THEN slash - 1
                 ELSE IF slash < quest THEN slash - 1 ELSE quest - 1
      path    == IF quest = 0 THEN SubSeq(rest, hostEnd + 1, Len(rest))
                 ELSE SubSeq(rest, hostEnd + 1, quest - 1)
  IN  [hostname |-> SubSeq(rest, 1, hostEnd),
       pathname |-> IF path = <<>> THEN <<"/">> ELSE path,
       query    |-> IF quest = 0 THEN <<>> ELSE SubSeq(rest, quest + 1, Len(rest))]

\* the first position where "www." starts, 0 when there is none
IndexOfWww(host) ==
  LET hits == {i \in 1..(Len(host) - 3) :
                 host[i] = "w" /\ host[i + 1] = "w" /\ host[i + 2] = "w" /\ host[i + 3] = "."}
  IN  IF hits = {} THEN 0 ELSE CHOOSE i \in hits : \A j \in hits : i <= j

\* "www." removed when the host begins with it
StripLeadingWww(host) ==
  IF IndexOfWww(host) = 1 THEN SubSeq(host, 5, Len(host)) ELSE host

\* route.ts:145  hostname.replace(/www\./, '')
StripWww(host) ==
  LET i == IndexOfWww(host)
  IN  IF i = 0 THEN host ELSE SubSeq(host, 1, i - 1) \o SubSeq(host, i + 4, Len(host))

\* route.ts:149  urlPath.replace(/(.+)\/$/, '$1')
RemoveTrailingSlash(path) ==
  IF Len(path) >= 2 /\ path[Len(path)] = "/" THEN SubSeq(path, 1, Len(path) - 1)
  ELSE path

\* route.ts:133-150  the url and referrer fields of the event
NormalizeUrl(url, referrer, removeTrailingSlash) ==
  LET urlParts == SplitQuery(url)
      refParts == SplitQuery(referrer)
      urlPath0 == Part(urlParts, 1)
      urlPath1 == IF urlPath0 = Undef \/ urlPath0 = <<>> THEN <<"/">> ELSE urlPath0
      refPath0 == Part(refParts, 1)
      absolute == IsAbsolute(refPath0)
      refUrl   == ParseUrl(referrer)
  IN  [done |-> TRUE, url |-> url, referrer |-> referrer,
       removeTrailingSlash |-> removeTrailingSlash,
       urlPath |-> IF removeTrailingSlash THEN RemoveTrailingSlash(urlPath1) ELSE urlPath1,
       urlQuery |-> Part(urlParts, 2),
       referrerPath |-> IF absolute THEN refUrl.pathname ELSE refPath0,
       referrerQuery |-> IF absolute THEN refUrl.query ELSE Part(refParts, 2),
       referrerDomain |-> IF absolute THEN StripWww(refUrl.hostname) ELSE <<>>]

NoNorm == [done |-> FALSE, url |-> Undef, referrer |-> Undef,
           removeTrailingSlash |-> FALSE, urlPath |-> Undef, urlQuery |-> Undef,
           referrerPath |-> Undef, referrerQuery |-> Undef, referrerDomain |-> <<>>]

\* ------------------------------------------------------------ handler parts
\* the bot check, never taken
BotCheckOff(r) == FALSE

\* route.ts:16  the bot check
BotCheck(r) == ~disableBotCheck /\ isbot(r.userAgent)

\* route.ts:20-42  schema validation of the body
SchemaOk(r) == r.type \in schemaTypes /\ r.website \in Websites

\* the cache check, trusting whatever the header holds
CacheCheckTrusting(header) ==
  IF header.kind # "none"
  THEN LET result == parseToken(header)
       IN  IF result # NoCache THEN result ELSE [NoCache EXCEPT !.websiteId = "junk"]
  ELSE NoCache

\* route.ts:60-69  the cache check
CacheCheck(header) ==
  IF header.kind # "none"
  THEN LET result == parseToken(header)
       IN  IF result # NoCache THEN result ELSE NoCache
  ELSE NoCache

\* the website lookup made whatever the cache holds
NeedsWebsiteAlways(cache) == TRUE

\* the website lookup never made
NeedsWebsiteNever(cache) == FALSE

\* route.ts:72  "!cache?.websiteId"
NeedsWebsite(cache) == cache.websiteId = NoStr

\* route.ts:92  "!cache?.sessionId"
NeedsSession(cache) == cache.sessionId = NoId

\* the session id taken from the cache when it has one
SessionIdFromCache(r) ==
  IF r.cache.sessionId # NoId THEN r.cache.sessionId
  ELSE uuid(<<r.website, r.hostname, r.ip, r.userAgent>>)

\* route.ts:89  the session id
SessionIdOf(r) ==
  LET info == getClientInfo(r)
  IN  uuid(<<r.website, r.hostname, info.ip, info.userAgent>>)

\* the creation test without the storage mode
ShouldCreateAnyMode(session) == ~session

\* route.ts:96  "!session && !clickhouse.enabled"
ShouldCreate(session) == ~session /\ ~clickhouseEnabled

\* the catch clause, with every error fatal
ToleratedNever(msg) == FALSE

\* the catch clause, with every error swallowed
ToleratedAlways(msg) == TRUE

\* route.ts:113  the catch clause lets the error pass
Tolerated(msg) == includes(toLowerCase(msg), <<"unique", "constraint">>)

\* the expiry test, off by one at the boundary
ExpiredAtBoundary(t, iat) == t - iat >= VisitWindow

\* route.ts:126  the visit has expired
Expired(t, iat) == t - iat > VisitWindow

\* route.ts:121-129  visit info
VisitInfo(cache, sessionId, t) ==
  LET visitId0 == IF cache.visitId # NoId THEN cache.visitId
                  ELSE uuid(<<sessionId, visitSalt>>)
      iat0     == IF cache.iat # 0 THEN cache.iat ELSE t
  IN  IF Expired(t, iat0)
      THEN [visitId |-> uuid(<<sessionId, visitSalt>>), iat |-> t]
      ELSE [visitId |-> visitId0, iat |-> iat0]

\* route.ts:179  "!data"
DataMissing(data) == data = "absent"

\* ------------------------------------------------------------------ state
Idle == [pc |-> "idle", type |-> "event", website |-> "w1",
         hostname |-> "site.example", ip |-> "10.0.0.1",
         userAgent |-> "Firefox", data |-> "absent", header |-> NoHeader,
         cache |-> NoCache, sessionId |-> NoId, visitId |-> NoId, iat |-> 0,
         at |-> 0, calls |-> <<>>, outcome |-> "none", body |-> NoStr,
         token |-> NoCache, saved |-> NoRecord]

Init ==
  /\ proc = [p \in Procs |-> Idle]
  /\ sessions = {}
  /\ events = EmptyBag
  /\ sessionData = EmptyBag
  /\ issued = {}
  /\ now = StartTime
  /\ ticks = 0
  /\ nreq = 0
  /\ clickhouseEnabled \in BOOLEAN
  /\ disableBotCheck \in BOOLEAN
  /\ norm = NoNorm

Call(op, res) == [op |-> op, res |-> res]

Finish(q, outcome, body) == [q EXCEPT !.pc = "done", !.outcome = outcome, !.body = body]

\* ---------------------------------------------------------------- actions
\* a worker that is not handling a request
Free(p) == proc[p].pc = "idle"

\* no response is on its way out: a response leaves before the event loop
\* takes up the next continuation
Quiet == \A p \in Procs : proc[p].pc # "done"

\* route.ts:14-69  a request arrives at the first free worker: bot check, validation,
\* cache check
Receive(p) ==
  /\ Quiet
  /\ Free(p)
  /\ \A o \in Procs : Free(o) => p <= o
  /\ nreq < MaxRequests
  /\ \E rq \in Requests,
        header \in {NoHeader, GarbageHeader}
                     \cup {[kind |-> "token", claims |-> c] : c \in issued} :
       LET r == [Idle EXCEPT !.type = rq.type, !.website = rq.website,
                             !.hostname = rq.hostname, !.ip = rq.ip,
                             !.userAgent = rq.userAgent, !.data = rq.data,
                             !.header = header]
           parsed == IF header.kind # "none"
                     THEN <<Call("parseToken",
                                 IF parseToken(header) # NoCache THEN "claims" ELSE "null")>>
                     ELSE <<>>
       IN  proc' = [proc EXCEPT ![p] =
             IF BotCheck(r) THEN Finish(r, "ok", "beep")
             ELSE IF ~SchemaOk(r) THEN Finish(r, "badRequest", "invalid")
             ELSE [r EXCEPT !.pc = "website", !.cache = CacheCheck(header),
                            !.calls = parsed]]
  /\ nreq' = nreq + 1
  /\ UNCHANGED <<sessions, events, sessionData, issued, now, ticks,
                 clickhouseEnabled, disableBotCheck, norm>>

\* client info and session id, with the IP block left out
AfterWebsiteUnblocked(q) ==
  [q EXCEPT !.calls = @ \o <<Call("getClientInfo", "ok")>>,
            !.pc = "session", !.sessionId = SessionIdOf(q)]

\* route.ts:80-89  client info, IP block, session id (after the website step)
AfterWebsite(q) ==
  LET info == getClientInfo(q)
      q1   == [q EXCEPT !.calls = @ \o <<Call("getClientInfo", "ok"),
                  Call("hasBlockedIp", IF hasBlockedIp(info.ip) THEN "true" ELSE "false")>>]
  IN  IF hasBlockedIp(info.ip)
      THEN Finish(q1, "forbidden", NoStr)
      ELSE [q1 EXCEPT !.pc = "session", !.sessionId = SessionIdOf(q)]

\* route.ts:71-89  find website
FindWebsite(p) ==
  /\ Quiet
  /\ proc[p].pc = "website"
  /\ LET q == proc[p]
     IN  \/ /\ ~NeedsWebsite(q.cache)
            /\ proc' = [proc EXCEPT ![p] = AfterWebsite(q)]
         \/ /\ NeedsWebsite(q.cache)
            /\ \E failed \in BOOLEAN :
                 proc' = [proc EXCEPT ![p] =
                   IF failed
                   THEN Finish([q EXCEPT !.calls = @ \o <<Call("fetchWebsite", "throw")>>],
                               "exception", NoStr)
                   ELSE IF ~fetchWebsite(q.website)
                   THEN Finish([q EXCEPT !.calls = @ \o <<Call("fetchWebsite", "null")>>],
                               "badRequest", "Website not found.")
                   ELSE AfterWebsite([q EXCEPT !.calls = @ \o <<Call("fetchWebsite", "found")>>])]
  /\ UNCHANGED <<sessions, events, sessionData, issued, now, ticks, nreq,
                 clickhouseEnabled, disableBotCheck, norm>>

\* route.ts:91-96  find session
FindSession(p) ==
  /\ Quiet
  /\ proc[p].pc = "session"
  /\ LET q == proc[p]
     IN  \/ /\ ~NeedsSession(q.cache)
            /\ proc' = [proc EXCEPT ![p].pc = "visit"]
         \/ /\ NeedsSession(q.cache)
            /\ \E failed \in BOOLEAN :
                 proc' = [proc EXCEPT ![p] =
                   IF failed
                   THEN Finish([q EXCEPT !.calls = @ \o <<Call("fetchSession", "throw")>>],
                               "exception", NoStr)
                   ELSE LET session == fetchSession(q.website, q.sessionId)
                        IN  [q EXCEPT !.calls = @ \o <<Call("fetchSession",
                                          IF session THEN "found" ELSE "null")>>,
                                      !.pc = IF ShouldCreate(session)
                                             THEN "create" ELSE "visit"]]
  /\ UNCHANGED <<sessions, events, sessionData, issued, now, ticks, nreq,
                 clickhouseEnabled, disableBotCheck, norm>>

\* route.ts:96-117  create a session if not found
CreateSession(p) ==
  /\ Quiet
  /\ proc[p].pc = "create"
  /\ LET q      == proc[p]
         exists == \E s \in sessions : s.id = q.sessionId
     IN  \/ /\ ~exists
            /\ sessions' = sessions \cup {[id |-> q.sessionId, websiteId |-> q.website]}
            /\ proc' = [proc EXCEPT ![p] =
                 [q EXCEPT !.calls = @ \o <<Call("createSession", "ok")>>, !.pc = "visit"]]
         \/ /\ \E msg \in {UniqueMessage, OtherMessage} :
                 /\ msg = UniqueMessage => exists
                 /\ LET q1 == [q EXCEPT !.calls = @ \o <<Call("createSession",
                                   IF msg = UniqueMessage THEN "conflict" ELSE "throw")>>]
                    IN  proc' = [proc EXCEPT ![p] =
                          IF ~Tolerated(msg)
                          THEN Finish(q1, "serverError", "error")
                          ELSE [q1 EXCEPT !.pc = "visit"]]
            /\ UNCHANGED sessions
  /\ UNCHANGED <<events, sessionData, issued, now, ticks, nreq,
                 clickhouseEnabled, disableBotCheck, norm>>

\* the token signed over the ids of the cache where it has them
RespondFromCache(q) ==
  [Finish(q, "ok", "cache") EXCEPT
     !.token = [websiteId |-> IF q.cache.websiteId # NoStr THEN q.cache.websiteId
                              ELSE q.website,
                sessionId |-> IF q.cache.sessionId # NoId THEN q.cache.sessionId
                              ELSE q.sessionId,
                visitId |-> q.visitId, iat |-> q.iat]]

\* route.ts:190-192  sign the token and answer
Respond(q) ==
  [Finish(q, "ok", "cache") EXCEPT
     !.token = [websiteId |-> q.website, sessionId |-> q.sessionId,
                visitId |-> q.visitId, iat |-> q.iat]]

\* route.ts:120-192  visit info, persistence, token; new Date() reads a clock
\* that has advanced by d since it was last read
Persist(p) ==
  /\ Quiet
  /\ proc[p].pc = "visit"
  /\ \E d \in {0} \cup TickSteps :
       /\ d > 0 => ticks < MaxTicks
       /\ now' = now + d
       /\ ticks' = IF d > 0 THEN ticks + 1 ELSE ticks
  /\ LET q0    == proc[p]
         visit == VisitInfo(q0.cache, q0.sessionId, now')
         q     == [q0 EXCEPT !.at = now', !.visitId = visit.visitId, !.iat = visit.iat]
     IN  \/ /\ q.type = COLLECTION_TYPE.event
            /\ \E failed \in BOOLEAN :
                 IF failed
                 THEN /\ proc' = [proc EXCEPT ![p] =
                           Finish([q EXCEPT !.calls = @ \o <<Call("saveEvent", "throw")>>],
                                  "exception", NoStr)]
                      /\ UNCHANGED <<events, issued>>
                 ELSE LET row == [kind |-> "event", websiteId |-> q.website,
                                  sessionId |-> q.sessionId, visitId |-> q.visitId,
                                  data |-> q.data]
                          q1  == Respond([q EXCEPT !.calls = @ \o <<Call("saveEvent", "ok")>>,
                                                   !.saved = row])
                      IN  /\ events' = events (+) SetToBag({row})
                          /\ proc' = [proc EXCEPT ![p] = q1]
                          /\ issued' = issued \cup {q1.token}
            /\ UNCHANGED sessionData
         \/ /\ q.type = COLLECTION_TYPE.identify
            /\ DataMissing(q.data)
            /\ proc' = [proc EXCEPT ![p] = Finish(q, "badRequest", "Data required.")]
            /\ UNCHANGED <<events, sessionData, issued>>
         \/ /\ q.type = COLLECTION_TYPE.identify
            /\ ~DataMissing(q.data)
            /\ \E failed \in BOOLEAN :
                 IF failed
                 THEN /\ proc' = [proc EXCEPT ![p] =
                           Finish([q EXCEPT !.calls = @ \o <<Call("saveSessionData", "throw")>>],
                                  "exception", NoStr)]
                      /\ UNCHANGED <<sessionData, issued>>
                 ELSE LET row == [kind |-> "identity", websiteId |-> q.website,
                                  sessionId |-> q.sessionId, visitId |-> NoId,
                                  data |-> q.data]
                          q1  == Respond([q EXCEPT !.calls = @ \o <<Call("saveSessionData", "ok")>>,
                                                   !.saved = row])
                      IN  /\ sessionData' = sessionData (+) SetToBag({row})
                          /\ proc' = [proc EXCEPT ![p] = q1]
                          /\ issued' = issued \cup {q1.token}
            /\ UNCHANGED events
         \/ /\ q.type # COLLECTION_TYPE.event
            /\ q.type # COLLECTION_TYPE.identify
            /\ LET q1 == Respond(q)
               IN  /\ proc' = [proc EXCEPT ![p] = q1]
                   /\ issued' = issued \cup {q1.token}
            /\ UNCHANGED <<events, sessionData>>
  /\ UNCHANGED <<sessions, nreq, clickhouseEnabled, disableBotCheck, norm>>

\* the response has left; the worker is free for the next request
Release(p) ==
  /\ proc[p].pc = "done"
  /\ proc' = [proc EXCEPT ![p] = Idle]
  /\ UNCHANGED <<sessions, events, sessionData, issued, now, ticks, nreq,
                 clickhouseEnabled, disableBotCheck, norm>>

Next ==
  \/ \E p \in Procs : Receive(p)
  \/ \E p \in Procs : FindWebsite(p)
  \/ \E p \in Procs : FindSession(p)
  \/ \E p \in Procs : CreateSession(p)
  \/ \E p \in Procs : Persist(p)
  \/ \E p \in Procs : Release(p)

Spec == Init /\ [][Next]_vars

\* route.ts:131-150  an event's url and referrer are normalized
Normalize ==
  /\ ~norm.done
  /\ \E url \in UrlInputs, referrer \in ReferrerInputs, removeTrailingSlash \in BOOLEAN :
       norm' = NormalizeUrl(url, referrer, removeTrailingSlash)
  /\ UNCHANGED <<proc, sessions, events, sessionData, issued, now, ticks, nreq,
                 clickhouseEnabled, disableBotCheck>>

InitUrl == Init /\ ~clickhouseEnabled /\ ~disableBotCheck

NextUrl == Normalize

SpecUrl == InitUrl /\ [][NextUrl]_vars

\* ------------------------------------------------------------ properties
Done(p) == proc[p].pc = "done"

Called(q, op) == \E i \in 1..Len(q.calls) : q.calls[i].op = op

Returned(q, op, res) ==
  \E i \in 1..Len(q.calls) : q.calls[i].op = op /\ q.calls[i].res = res

CallCount(q, op) == Cardinality({i \in 1..Len(q.calls) : q.calls[i].op = op})

Threw(q) == \E i \in 1..Len(q.calls) : q.calls[i].res = "throw"

Accepted(q) == q.pc = "done" /\ q.outcome = "ok" /\ q.body = "cache"

\* C1: in relational mode, a request without a valid token that found its
\* session absent and whose createSession succeeded or hit the unique
\* constraint leaves exactly one session with its id in the store, and, no
\* store call of it having thrown anything else, finishes with the success
\* response carrying a token, under every interleaving of two such requests.
C1_RaceTolerated ==
  \A p \in Procs :
    LET q == proc[p]
    IN  (Returned(q, "fetchSession", "null")
           /\ (Returned(q, "createSession", "ok") \/ Returned(q, "createSession", "conflict")))
        => /\ ~clickhouseEnabled
           /\ q.cache = NoCache
           /\ Cardinality({s \in sessions : s.id = q.sessionId}) = 1
           /\ q.pc \in {"visit", "done"}
           /\ (Done(p) /\ ~Threw(q) => Accepted(q) /\ q.token.sessionId = q.sessionId)

C1_Witness ==
  \E p \in Procs :
    /\ Returned(proc[p], "fetchSession", "null")
    /\ Returned(proc[p], "createSession", "conflict")
    /\ Accepted(proc[p])

\* C2: every accepted request (success response carrying a token) called
\* exactly one of saveEvent and saveSessionData, exactly once.
C2_ExactlyOneSave ==
  \A p \in Procs :
    Accepted(proc[p])
    => CallCount(proc[p], "saveEvent") + CallCount(proc[p], "saveSessionData") = 1

\* C3: an accepted request that presents a token whose issuedAt is at most
\* 1800 seconds before the request's time (1800 included) issues a token with
\* the visitId and issuedAt of the presented token, and persists its event
\* under that visitId.
C3_VisitReused ==
  \A p \in Procs :
    LET q == proc[p]
    IN  (Accepted(q) /\ q.header.kind = "token" /\ q.at - q.header.claims.iat <= VisitWindow)
        => /\ q.token.visitId = q.header.claims.visitId
           /\ q.token.iat = q.header.claims.iat
           /\ (q.saved.kind = "event" => q.saved.visitId = q.header.claims.visitId)

C3_Witness ==
  \E p \in Procs :
    LET q == proc[p]
    IN  /\ Accepted(q)
        /\ q.header.kind = "token"
        /\ q.at - q.header.claims.iat = VisitWindow
        /\ q.saved.kind = "event"
        /\ q.token = q.header.claims

\* C4: an accepted request that presents a token whose issuedAt is more than
\* 1800 seconds before the request's time issues a visitId different from the
\* token's and an issuedAt equal to the request's time, in the token it
\* returns and in the event it persists.
C4_RolloverNewVisit ==
  \A p \in Procs :
    LET q == proc[p]
    IN  (Accepted(q) /\ q.header.kind = "token" /\ q.at - q.header.claims.iat > VisitWindow)
        => /\ q.token.visitId # q.header.claims.visitId
           /\ q.token.iat = q.at
           /\ (q.saved.kind = "event" => q.saved.visitId = q.token.visitId)

\* C5: an identity beacon whose data is absent or empty and that has reached
\* the branch on the beacon type ends with a bad request and has written
\* nothing: no session created, no event saved, no
\* session data saved.
C5_EmptyIdentityRejected ==
  \A p \in Procs :
    LET q == proc[p]
    IN  (Done(p) /\ q.type = "identity" /\ q.data \in {"absent", "empty"} /\ q.at > 0)
        => /\ q.outcome = "badRequest"
           /\ ~Returned(q, "createSession", "ok")
           /\ ~Called(q, "saveEvent")
           /\ ~Called(q, "saveSessionData")

\* C6: with the bot check enabled, a request from a user agent classified as
\* a bot is answered with the neutral response at once: no token decoding, no
\* lookup, no client-info resolution, no block-list check, no session
\* find/create, no save, no token.
C6_BotShortCircuit ==
  \A p \in Procs :
    LET q == proc[p]
    IN  (q.pc # "idle" /\ ~disableBotCheck /\ q.userAgent \in BotAgents)
        => /\ Done(p)
           /\ q.outcome = "ok"
           /\ q.body = "beep"
           /\ q.calls = <<>>
           /\ q.token = NoCache
           /\ q.saved = NoRecord

C6_Witness ==
  \E p \in Procs :
    /\ Done(p)
    /\ ~disableBotCheck
    /\ proc[p].userAgent \in BotAgents
    /\ proc[p].body = "beep"

\* C7: a request whose resolved IP is on the block list never calls
\* createSession, saveEvent or saveSessionData, is issued no token, and, once
\* the block list has been consulted, ends with the forbidden outcome, with
\* or without a valid token and in either storage mode.
C7_BlockedIpStops ==
  \A p \in Procs :
    LET q == proc[p]
    IN  (q.pc # "idle" /\ q.ip \in BlockedIps)
        => /\ q.pc \notin {"session", "create", "visit"}
           /\ ~Called(q, "fetchSession")
           /\ ~Called(q, "createSession")
           /\ ~Called(q, "saveEvent")
           /\ ~Called(q, "saveSessionData")
           /\ q.token = NoCache
           /\ q.saved = NoRecord
           /\ (Called(q, "getClientInfo") => Done(p) /\ q.outcome = "forbidden")

C7_Witness ==
  \E p \in Procs :
    /\ Done(p)
    /\ proc[p].ip \in BlockedIps
    /\ proc[p].header.kind = "token"
    /\ proc[p].outcome = "forbidden"

\* C8: when createSession fails with an error that is not a unique-constraint
\* conflict, the request ends with the server error, calls neither saveEvent
\* nor saveSessionData and is issued no token.
C8_CreateFailureFatal ==
  \A p \in Procs :
    LET q == proc[p]
    IN  Returned(q, "createSession", "throw")
        => /\ Done(p)
           /\ q.outcome = "serverError"
           /\ ~Called(q, "saveEvent")
           /\ ~Called(q, "saveSessionData")
           /\ q.token = NoCache
           /\ q.saved = NoRecord

C8_Witness ==
  \E p \in Procs :
    /\ Returned(proc[p], "createSession", "throw")
    /\ proc[p].outcome = "serverError"

\* C9: a request one of whose store calls failed ends with a classified
\* outcome produced by the handler; a failed saveEvent or saveSessionData
\* ends with the server error.
C9_FailuresClassified ==
  \A p \in Procs :
    (Done(p) /\ Threw(proc[p])) => proc[p].outcome = "serverError"

\* C10: a request whose token header does not decode goes through the full
\* resolution exactly as a request without the header: its cache is the one
\* of a header-less request, the website lookup is made, the session lookup
\* is made once the block list has let it pass, and the token it is issued
\* carries the ids and time the handler derives without a cache.
C10_InvalidTokenIsNoToken ==
  \A p \in Procs :
    LET q == proc[p]
    IN  (q.header.kind = "garbage" /\ q.pc \notin {"idle"} /\ q.body \notin {"beep", "invalid"})
        => /\ q.cache = CacheCheck(NoHeader)
           /\ q.calls # <<>> /\ q.calls[1] = Call("parseToken", "null")
           /\ (q.pc # "website" => Called(q, "fetchWebsite"))
           /\ (q.pc \in {"create", "visit"} => Called(q, "fetchSession"))
           /\ (Done(p) /\ q.outcome = "forbidden" => Called(q, "hasBlockedIp"))
           /\ (Done(p) /\ q.outcome = "badRequest" => Returned(q, "fetchWebsite", "null"))
           /\ (Accepted(q) =>
                 /\ Called(q, "fetchSession")
                 /\ q.token = [websiteId |-> q.website, sessionId |-> SessionIdOf(q),
                               visitId |-> uuid(<<SessionIdOf(q), visitSalt>>),
                               iat |-> q.at])
           /\ \A o \in Procs :
                (proc[o].header.kind = "none" /\ proc[o].pc = q.pc
                   /\ Req(proc[o].type, proc[o].website, proc[o].ip,
                          proc[o].userAgent, proc[o].data)
                      = Req(q.type, q.website, q.ip, q.userAgent, q.data)
                   /\ proc[o].calls = Tail(q.calls))
                => proc[o] = [q EXCEPT !.header = NoHeader, !.calls = Tail(q.calls)]

C10_Witness ==
  \E p \in Procs :
    /\ proc[p].header.kind = "garbage"
    /\ Accepted(proc[p])
    /\ proc[p].saved.kind = "event"

\* a request that got past the bot check and the schema
Admitted(q) == q.pc # "idle" /\ q.body \notin {"beep", "invalid"}

\* C11: a request that presents a token that decodes makes no call to the
\* website lookup, the session lookup or session creation; before anything is
\* persisted or a token is signed it has resolved the client info and
\* consulted the block list.
C11_TokenSkipsLookups ==
  \A p \in Procs :
    LET q == proc[p]
    IN  (Admitted(q) /\ q.header.kind = "token")
        => /\ ~Called(q, "fetchWebsite")
           /\ ~Called(q, "fetchSession")
           /\ ~Called(q, "createSession")
           /\ q.pc # "create"
           /\ (q.pc \in {"session", "visit"} \/ q.saved # NoRecord \/ q.token # NoCache)
              => (q.calls[2] = Call("getClientInfo", "ok")
                    /\ q.calls[3] = Call("hasBlockedIp", "false"))

C11_Witness ==
  \E p \in Procs :
    /\ proc[p].header.kind = "token"
    /\ Accepted(proc[p])
    /\ proc[p].calls = <<Call("parseToken", "claims"), Call("getClientInfo", "ok"),
                         Call("hasBlockedIp", "false"), Call("saveEvent", "ok")>>

\* C12: the session id a request uses, in the session it creates, the record
\* it persists and the token it is issued, is the digest of its (websiteId,
\* hostname, ip, userAgent), whatever token it presents; two requests with
\* the same four values use the same session id.
C12_SessionIdFromClient ==
  \A p \in Procs :
    LET q   == proc[p]
        sid == uuid(<<q.website, q.hostname, q.ip, q.userAgent>>)
    IN  /\ q.pc \in {"session", "create", "visit"} => q.sessionId = sid
        /\ q.saved.kind # "none" => q.saved.sessionId = sid
        /\ q.token # NoCache => q.token.sessionId = sid
        /\ Returned(q, "createSession", "ok")
             => \E s \in sessions : s.id = sid /\ s.websiteId = q.website
        /\ \A o \in Procs :
             (<<proc[o].website, proc[o].hostname, proc[o].ip, proc[o].userAgent>>
                = <<q.website, q.hostname, q.ip, q.userAgent>>
              /\ q.sessionId # NoId /\ proc[o].sessionId # NoId)
             => proc[o].sessionId = q.sessionId

C12_Witness ==
  \E p \in Procs :
    /\ Accepted(proc[p])
    /\ proc[p].header.kind = "token"
    /\ proc[p].header.claims.sessionId # proc[p].token.sessionId
    /\ proc[p].saved.kind = "event"

\* C13: a request without a valid token whose website lookup misses ends
\* with the bad request 'Website not found.' after that lookup alone: no
\* client-info resolution, no block-list check, no session find/create, no
\* save, no token.
C13_UnknownWebsiteStops ==
  \A p \in Procs :
    LET q == proc[p]
    IN  (Admitted(q) /\ q.header.kind # "token" /\ q.website \notin KnownWebsites
           /\ q.pc # "website" /\ ~Threw(q))
        => /\ Done(p)
           /\ q.outcome = "badRequest"
           /\ q.body = "Website not found."
           /\ \A i \in 1..Len(q.calls) : q.calls[i].op \in {"parseToken", "fetchWebsite"}
           /\ Returned(q, "fetchWebsite", "null")
           /\ q.token = NoCache
           /\ q.saved = NoRecord

C13_Witness ==
  \E p \in Procs :
    /\ Done(p)
    /\ proc[p].website \notin KnownWebsites
    /\ proc[p].body = "Website not found."

\* C14: with the columnar store active no request calls createSession; with
\* it inactive a request without a valid token whose session lookup has
\* returned calls createSession exactly when the lookup missed.
C14_CreateOnlyRelationalMiss ==
  \A p \in Procs :
    LET q == proc[p]
    IN  /\ clickhouseEnabled => (~Called(q, "createSession") /\ q.pc # "create")
        /\ q.pc = "create" => Returned(q, "fetchSession", "null")
        /\ (~clickhouseEnabled /\ q.header.kind # "token" /\ q.pc \in {"visit", "done"}
              /\ (Returned(q, "fetchSession", "null") \/ Returned(q, "fetchSession", "found")))
           => /\ Called(q, "createSession") <=> Returned(q, "fetchSession", "null")
              /\ CallCount(q, "createSession") <= 1

C14_Witness ==
  \E p \in Procs :
    /\ clickhouseEnabled
    /\ Returned(proc[p], "fetchSession", "null")
    /\ Accepted(proc[p])

\* C15: in every persisted event and every issued token the visitId is the
\* digest of the sessionId of that same record or token and the salt,
\* also when the visitId is taken over from a presented token.
C15_VisitIdOfSession ==
  \A p \in Procs :
    LET q == proc[p]
    IN  /\ q.saved.kind = "event" => q.saved.visitId = uuid(<<q.saved.sessionId, visitSalt>>)
        /\ q.token # NoCache => q.token.visitId = uuid(<<q.token.sessionId, visitSalt>>)

\* C16: the token of an accepted request carries the websiteId, sessionId
\* and visitId of the record the request persisted and the issuedAt the visit
\* step resolved; a request that ends in an error or in the bot short-circuit
\* is issued no token, and nothing is persisted without a token being issued.
C16_TokenMatchesRecord ==
  \A p \in Procs :
    LET q == proc[p]
    IN  /\ (Accepted(q) /\ q.saved.kind # "none")
           => /\ q.token.websiteId = q.saved.websiteId
              /\ q.token.sessionId = q.saved.sessionId
              /\ (q.saved.kind = "event" => q.token.visitId = q.saved.visitId)
        /\ Accepted(q)
           => /\ q.token.iat = VisitInfo(q.cache, q.sessionId, q.at).iat
              /\ q.token \in issued
        /\ ~Accepted(q) => (q.token = NoCache /\ q.saved = NoRecord)

C16_Witness ==
  \E p \in Procs :
    LET q == proc[p]
    IN  /\ Accepted(q)
        /\ q.saved.kind = "event"
        /\ q.header.kind = "token"
        /\ q.header.claims.sessionId # q.saved.sessionId
        /\ q.token.sessionId = q.saved.sessionId

\* C17: every persisted record has a websiteId that the website lookup of
\* its request found, or that equals the websiteId of the token the request
\* presented.
C17_WebsiteChecked ==
  \A p \in Procs :
    LET q == proc[p]
    IN  q.saved.kind # "none"
        => \/ Returned(q, "fetchWebsite", "found")
           \/ (q.header.kind = "token" /\ q.header.claims.websiteId = q.saved.websiteId)

\* C18: in relational mode every persisted record has a sessionId for which
\* the session store holds a session (sessions are never deleted), also for
\* a request presenting a token issued to another ip, userAgent or hostname.
C18_RecordHasSession ==
  ~clickhouseEnabled
  => \A p \in Procs :
       proc[p].saved.kind # "none"
       => \E s \in sessions : s.id = proc[p].saved.sessionId

\* what precedes the first "?" of a string
BeforeQuery(str) ==
  IF IndexOf(str, "?") = 0 THEN str ELSE SubSeq(str, 1, IndexOf(str, "?") - 1)

\* what follows the first "?" of a string, undefined when it has none
AfterQuery(str) ==
  IF IndexOf(str, "?") = 0 THEN Undef
  ELSE SubSeq(str, IndexOf(str, "?") + 1, Len(str))

\* C19: the decoded url is split at its first "?" only: urlPath is what
\* precedes it ("/" when that is empty) and urlQuery is all that follows it,
\* later "?" included; a referrer that is not absolute is split the same way.
C19_SplitAtFirstQuery ==
  (norm.done /\ ~norm.removeTrailingSlash)
  => /\ norm.url # Undef
        => LET u == safeDecodeURI(norm.url)
           IN  /\ norm.urlPath = IF BeforeQuery(u) = <<>> THEN <<"/">> ELSE BeforeQuery(u)
               /\ norm.urlQuery = AfterQuery(u)
     /\ (norm.referrer # Undef /\ ~IsAbsolute(BeforeQuery(safeDecodeURI(norm.referrer))))
        => LET r == safeDecodeURI(norm.referrer)
           IN  /\ norm.referrerPath = BeforeQuery(r)
               /\ norm.referrerQuery = AfterQuery(r)

\* C20: for an absolute referrer, referrerDomain is its hostname without a
\* leading "www." and otherwise unchanged; for a referrer that is a bare path
\* it is the empty string.
C20_LeadingWwwStripped ==
  (norm.done /\ norm.referrer # Undef)
  => IF IsAbsolute(BeforeQuery(safeDecodeURI(norm.referrer)))
     THEN norm.referrerDomain = StripLeadingWww(ParseUrl(norm.referrer).hostname)
     ELSE norm.referrerDomain = <<>>

====
